---- MODULE Spec2Model ----
(***************************************************************************)
(* Model of qiskit_experiments.library.randomized_benchmarking             *)
(* clifford_utils.CliffordUtils: mixed-radix unranking, synthesis of the   *)
(* 1- and 2-qubit Clifford circuits, their lru_cache, and the edge-grab    *)
(* sampler; and of the circuit splitter of                                 *)
(* qiskit_experiments.test.mock_iq_helpers.MockIQParallelExperimentHelper. *)
(***************************************************************************)
EXTENDS Integers, Sequences, FiniteSets, Bags, TLC

(***************************************************************************)
(* Bounds of the model.                                                    *)
(***************************************************************************)
MaxRadix == 3        \* radices of a generic signature are 1..MaxRadix
MaxSigLen == 3       \* a generic signature has at most MaxSigLen radices
MaxOver == 2         \* how far outside its range an index is tried
MaxSpan == 4         \* span of a signature in a generic signature list
MaxSigs == 2         \* length of a generic signature list
MaxQubits == 4       \* qubits of the matching runs
MaxEdges == 3        \* edges of the coupling map of the matching runs
MaxGrabEdges == 1    \* edges of the coupling map of the full sampler runs
MaxSize == 2         \* argument size: the number of circuits asked for
CoinGrid == 4        \* rng.random() is one of 0/CoinGrid .. (CoinGrid-1)/CoinGrid
MaxNumQubits == 3    \* argument num_qubits of the random samplers
MaxGates == 2        \* gates of a circuit given to compute_target_bitstring
MaxInsts == 2        \* instructions of a circuit given to _parallel_exp_circ_splitter
MaxExtra == 2        \* calls of a cached method made after the sweep of the 1-qubit indices
MaxCalls == 3        \* calls of a cached method by a caller that appends to what it is handed
MaxThreads == 3      \* threads that call a cached method concurrently
MaxAppended == 1     \* gates that callers append to the circuits they were handed

(***************************************************************************)
(* Program constants (class attributes of CliffordUtils).                  *)
(***************************************************************************)
NUM_CLIFFORD_1_QUBIT == 24
NUM_CLIFFORD_2_QUBIT == 11520
CLIFFORD_1_QUBIT_SIG == <<2, 3, 4>>
CLIFFORD_2_QUBIT_SIGS ==
    << <<2, 2, 3, 3, 4, 4>>,
       <<2, 2, 3, 3, 3, 3, 4, 4>>,
       <<2, 2, 3, 3, 3, 3, 4, 4>>,
       <<2, 2, 3, 3, 4, 4>> >>

VARIABLES
    pc,         \* position of the call being modelled
    num,        \* argument num of the unranking / synthesis call
    sig,        \* argument sig of _unpack_num
    sigs,       \* argument sigs of _unpack_num_multi_sigs
    res,        \* value returned by the unranking call
    elem,       \* Clifford(qc): the group element of the returned circuit
    qc,         \* circuit under construction / returned
    qubits,     \* argument qubits of random_edgegrab_clifford_circuits
    coupling_map,               \* argument coupling_map
    two_qubit_gate_density,     \* argument two_qubit_gate_density, <<numerator, denominator>>
    size,       \* argument size
    iter,       \* position of "for i in list(range(size))"
    all_edges,
    aliased,    \* all_edges names the list object of the caller's coupling_map
    selected_edges,
    two_qubit_prob,             \* <<numerator, denominator>>
    put_1_qubit_clifford,
    pos,        \* position of the inner for loop being run
    warned,     \* the warnings issued by warnings.warn
    draws,      \* the rng.integers(24) draws of line 191 for this circuit, <<q, index>>
    qc_list,    \* the number of circuits appended to qc_list
    cache,      \* per cached method (1 or 2 qubits): the lru_cache entries, least recently used first
    heap,       \* the QuantumCircuit objects alive, by object identity
    synth,      \* how often the body of a cached method has run, per method and key
    want,       \* per caller: the calls of the cached methods it still has to make
    call,       \* per caller: its current or last call of a cached method
    num_qubits, \* argument num_qubits of random_cliffords / random_clifford_circuits
    exp_list,   \* MockIQParallelExperimentHelper.exp_list: the physical_qubits of each experiment
    circuits,   \* argument qc_list of _parallel_exp_circ_splitter
    qubit_exp_map,
    exp_circuits_list,
    raised      \* the exception that ended the call

rankVars == <<num, sig, sigs, res, elem>>

grabVars == <<qubits, coupling_map, two_qubit_gate_density, size, iter, all_edges,
              aliased, selected_edges, two_qubit_prob, put_1_qubit_clifford, pos, warned, draws,
              qc_list>>

cacheVars == <<cache, heap, synth, want, call>>

splitVars == <<exp_list, circuits, qubit_exp_map, exp_circuits_list, raised>>

restVars == <<cacheVars, num_qubits, splitVars>>

vars == <<pc, rankVars, qc, grabVars, restVars>>

(***************************************************************************)
(* Python values.                                                          *)
(***************************************************************************)
\* None, as returned by _unpack_num_multi_sigs; no list it returns starts
\* with a negative form number.
None == <<-1>>
\* The value of a variable that the modelled call does not use.
Unused == << >>

CacheUnused ==
    cache = Unused /\ heap = Unused /\ synth = Unused /\ want = Unused /\ call = Unused

SplitUnused ==
    /\ exp_list = Unused /\ circuits = Unused /\ qubit_exp_map = Unused
    /\ exp_circuits_list = Unused /\ raised = ""

RestUnused == CacheUnused /\ num_qubits = 0 /\ SplitUnused

(***************************************************************************)
(* _unpack_num: for k in sig: res.append(num % k); num //= k.              *)
(* Python's % and // with a positive divisor are the floored ones, as are  *)
(* % and \div here.                                                        *)
(***************************************************************************)
RECURSIVE unpack_num_swapped(_, _)
unpack_num_swapped(n, s) ==
    IF s = << >> THEN << >>
    ELSE <<(n \div Head(s)) % Head(s)>> \o unpack_num_swapped(n % Head(s), Tail(s))

RECURSIVE unpack_num(_, _)
unpack_num(n, s) ==
    IF s = << >> THEN << >>
    ELSE <<n % Head(s)>> \o unpack_num(n \div Head(s), Tail(s))

\* sig_size of _unpack_num_multi_sigs: the product of the radices of a signature.
RECURSIVE sig_size(_)
sig_size(s) == IF s = << >> THEN 1 ELSE Head(s) * sig_size(Tail(s))

(***************************************************************************)
(* _unpack_num_multi_sigs: the loop over enumerate(sigs), from position i  *)
(* (1-based here, so the form number returned is i - 1).                   *)
(***************************************************************************)
RECURSIVE multi_sigs_from(_, _, _)
multi_sigs_from(n, ss, i) ==
    IF i > Len(ss) THEN None
    ELSE IF n < sig_size(ss[i]) THEN <<i - 1>> \o unpack_num(n, ss[i])
    ELSE multi_sigs_from(n - sig_size(ss[i]), ss, i + 1)

\* the mutant: the index is not reduced by the spans of the signatures passed over
RECURSIVE multi_sigs_keep(_, _, _)
multi_sigs_keep(n, ss, i) ==
    IF i > Len(ss) THEN None
    ELSE IF n < sig_size(ss[i]) THEN <<i - 1>> \o unpack_num(n, ss[i])
    ELSE multi_sigs_keep(n - 1, ss, i + 1)

unpack_num_multi_sigs_keep(n, ss) == multi_sigs_keep(n, ss, 1)

\* the mutant: a signature also takes the index equal to its span
RECURSIVE multi_sigs_le(_, _, _)
multi_sigs_le(n, ss, i) ==
    IF i > Len(ss) THEN None
    ELSE IF n <= sig_size(ss[i]) THEN <<i - 1>> \o unpack_num(n, ss[i])
    ELSE multi_sigs_le(n - sig_size(ss[i]), ss, i + 1)

unpack_num_multi_sigs_le(n, ss) == multi_sigs_le(n, ss, 1)

unpack_num_multi_sigs(n, ss) == multi_sigs_from(n, ss, 1)

(***************************************************************************)
(* Circuits.  A QuantumCircuit is its register size and its instruction    *)
(* list; an instruction is <<gate name, qubits>>.                          *)
(***************************************************************************)
QuantumCircuit(n) == [num_qubits |-> n, data |-> << >>]

\* qc.h(q), qc.x(q), qc._append(SGate(), [qr[q]], []), ...: one instruction appended
append(c, name, qargs) == [c EXCEPT !.data = Append(@, <<name, qargs>>)]

\* "if cond: qc.<gate>(...)"
append_if(c, cond, name, qargs) == IF cond THEN append(c, name, qargs) ELSE c

(***************************************************************************)
(* clifford_1_qubit_circuit: digits (i, j, p) of num under (2, 3, 4);      *)
(* Hadamard if i = 1, then SXdg / S for j = 1 / 2, then X / Y / Z for      *)
(* p = 1 / 2 / 3.  one_qubit_layers places these gates on qubit q of c.    *)
(***************************************************************************)
one_qubit_layers(c, q, d) ==
    LET i == d[1]
        j == d[2]
        p == d[3]
        c1 == append_if(c, i = 1, "h", <<q>>)
        c2 == append_if(c1, j = 1, "sxdg", <<q>>)
        c3 == append_if(c2, j = 2, "s", <<q>>)
        c4 == append_if(c3, p = 1, "x", <<q>>)
        c5 == append_if(c4, p = 2, "y", <<q>>)
    IN  append_if(c5, p = 3, "z", <<q>>)

\* the mutant: the S-type layer applies S for both non-zero digits
clifford_1_qubit_circuit_same_s(n) ==
    LET d == unpack_num(n, CLIFFORD_1_QUBIT_SIG)
    IN  one_qubit_layers(QuantumCircuit(1), 0, <<d[1], IF d[2] = 1 THEN 2 ELSE d[2], d[3]>>)

clifford_1_qubit_circuit(n) ==
    one_qubit_layers(QuantumCircuit(1), 0, unpack_num(n, CLIFFORD_1_QUBIT_SIG))

(***************************************************************************)
(* The CNOTs of clifford_2_qubit_circuit (lines 255-260): none for form 0, *)
(* cx(0,1) for form 1, then cx(1,0) for form 2, then cx(0,1) for form 3.   *)
(***************************************************************************)
\* the mutant: form 2 is not given its second CNOT
entangling_layer_short(c, form) ==
    LET c7 == append_if(c, form \in {1, 2, 3}, "cx", <<0, 1>>)
        c8 == append_if(c7, form \in {3}, "cx", <<1, 0>>)
    IN  append_if(c8, form = 3, "cx", <<0, 1>>)

entangling_layer(c, form) ==
    LET c7 == append_if(c, form \in {1, 2, 3}, "cx", <<0, 1>>)
        c8 == append_if(c7, form \in {2, 3}, "cx", <<1, 0>>)
    IN  append_if(c8, form = 3, "cx", <<0, 1>>)

\* the mutant: k1 = 2 is realized as one W on qubit 1
correction_layer_w_on_1(c, form, k0, k1) ==
    LET c10 == append_if(c, form \in {1, 2} /\ k0 = 1, "v", <<0>>)
        c11 == append_if(c10, form \in {1, 2} /\ k0 = 2, "w", <<0>>)
        c12 == append_if(c11, form \in {1, 2} /\ k1 = 1, "v", <<1>>)
    IN  append_if(c12, form \in {1, 2} /\ k1 = 2, "w", <<1>>)

\* lines 259-269: for forms 1 and 2, V or W on qubit 0 for k0 = 1 or 2, and
\* V once or twice on qubit 1 for k1 = 1 or 2
correction_layer(c, form, k0, k1) ==
    LET c10 == append_if(c, form \in {1, 2} /\ k0 = 1, "v", <<0>>)
        c11 == append_if(c10, form \in {1, 2} /\ k0 = 2, "w", <<0>>)
        c12 == append_if(c11, form \in {1, 2} /\ k1 = 1, "v", <<1>>)
        c13 == append_if(c12, form \in {1, 2} /\ k1 = 2, "v", <<1>>)
    IN  append_if(c13, form \in {1, 2} /\ k1 = 2, "v", <<1>>)

(***************************************************************************)
(* clifford_2_qubit_circuit, from the list vals that                       *)
(* _unpack_num_multi_sigs returned (not None).  Forms 0 and 3 unpack 7     *)
(* values, forms 1 and 2 unpack 9; k0 and k1 are read for forms 1, 2 only. *)
(***************************************************************************)
two_qubit_layers(vals) ==
    LET form == vals[1]
        i0 == vals[2]
        i1 == vals[3]
        j0 == vals[4]
        j1 == vals[5]
        long == ~(form = 0 \/ form = 3)
        k0 == IF long THEN vals[6] ELSE 0
        k1 == IF long THEN vals[7] ELSE 0
        p0 == IF long THEN vals[8] ELSE vals[6]
        p1 == IF long THEN vals[9] ELSE vals[7]
        c0 == QuantumCircuit(2)
        c1 == append_if(c0, i0 = 1, "h", <<0>>)
        c2 == append_if(c1, i1 = 1, "h", <<1>>)
        c3 == append_if(c2, j0 = 1, "sxdg", <<0>>)
        c4 == append_if(c3, j0 = 2, "s", <<0>>)
        c5 == append_if(c4, j1 = 1, "sxdg", <<1>>)
        c6 == append_if(c5, j1 = 2, "s", <<1>>)
        c9 == entangling_layer(c6, form)
        c14 == correction_layer(c9, form, k0, k1)
        c15 == append_if(c14, p0 = 1, "x", <<0>>)
        c16 == append_if(c15, p0 = 2, "y", <<0>>)
        c17 == append_if(c16, p0 = 3, "z", <<0>>)
        c18 == append_if(c17, p1 = 1, "x", <<1>>)
        c19 == append_if(c18, p1 = 2, "y", <<1>>)
    IN  append_if(c19, p1 = 3, "z", <<1>>)

(***************************************************************************)
(* Clifford(circuit): the stabilizer tableau of the circuit.  Row r of the *)
(* tableau is the signed Pauli that the circuit maps the r-th generator    *)
(* to (rows 1..n the destabilizers, images of X_q; rows n+1..2n the        *)
(* stabilizers, images of Z_q): x and z are its bit rows, phase its sign.  *)
(* Two circuits are the same group element iff their tableaux are equal.   *)
(***************************************************************************)
identity_tableau(n) ==
    [r \in 1..(2 * n) |->
        [x |-> [q \in 1..n |-> r = q],
         z |-> [q \in 1..n |-> r = n + q],
         phase |-> FALSE]]

\* The update <<x', z', phase flip>> of one row's bits at the gate's qubit.
basis_1q(name, x, z) ==
    CASE name = "h" -> <<z, x, x /\ z>>
      [] name = "s" -> <<x, z # x, x /\ z>>
      [] name = "sdg" -> <<x, z # x, x /\ ~z>>
      [] name = "sxdg" -> <<x # z, z, x /\ z>>
      [] name = "x" -> <<x, z, z>>
      [] name = "y" -> <<x, z, x # z>>
      [] name = "z" -> <<x, z, x>>

append_1q(t, name, q) ==
    [r \in DOMAIN t |->
        LET u == basis_1q(name, t[r].x[q + 1], t[r].z[q + 1])
        IN  [x |-> [t[r].x EXCEPT ![q + 1] = u[1]],
             z |-> [t[r].z EXCEPT ![q + 1] = u[2]],
             phase |-> (t[r].phase # u[3])]]

append_cx(t, c, g) ==
    [r \in DOMAIN t |->
        LET x0 == t[r].x[c + 1]
            z0 == t[r].z[c + 1]
            x1 == t[r].x[g + 1]
            z1 == t[r].z[g + 1]
        IN  [x |-> [t[r].x EXCEPT ![g + 1] = (x1 # x0)],
             z |-> [t[r].z EXCEPT ![c + 1] = (z0 # z1)],
             phase |-> (t[r].phase # (x0 /\ z1 /\ ((x1 # z0) # TRUE)))]]

\* VGate._define: Sdg then H.  WGate._define: H then S.
append_gate(t, g) ==
    CASE g[1] = "cx" -> append_cx(t, g[2][1], g[2][2])
      [] g[1] = "v" -> append_1q(append_1q(t, "sdg", g[2][1]), "h", g[2][1])
      [] g[1] = "w" -> append_1q(append_1q(t, "h", g[2][1]), "s", g[2][1])
      [] OTHER -> append_1q(t, g[1], g[2][1])

RECURSIVE append_circuit(_, _, _)
append_circuit(t, data, k) ==
    IF k > Len(data) THEN t
    ELSE append_circuit(append_gate(t, data[k]), data, k + 1)

Clifford(c) == append_circuit(identity_tableau(c.num_qubits), c.data, 1)

(***************************************************************************)
(* Inputs.                                                                 *)
(***************************************************************************)
\* generic signatures: sequences of positive radices
Signatures == UNION {[1..k -> 1..MaxRadix] : k \in 0..MaxSigLen}

\* generic signature lists: at most MaxSigs signatures of radices >= 2 and
\* of span at most MaxSpan
SigLists ==
    LET small == {s \in Signatures :
                     sig_size(s) <= MaxSpan /\ \A k \in DOMAIN s : s[k] >= 2}
    IN  UNION {[1..k -> small] : k \in 0..MaxSigs}

\* the sum of the spans of a signature list
RECURSIVE TotalSpan(_)
TotalSpan(ss) == IF ss = << >> THEN 0 ELSE sig_size(Head(ss)) + TotalSpan(Tail(ss))

\* the indices tried for a range of the given span: the range and MaxOver
\* indices on either side of it
Indices(span) == (0 - MaxOver)..(span - 1 + MaxOver)

\* the variables of random_edgegrab_clifford_circuits, when it is not the call modelled
GrabUnused ==
    /\ qubits = Unused /\ coupling_map = Unused /\ two_qubit_gate_density = Unused
    /\ size = 0 /\ iter = 0 /\ all_edges = Unused /\ selected_edges = Unused
    /\ aliased = FALSE
    /\ two_qubit_prob = Unused /\ put_1_qubit_clifford = Unused /\ pos = 0
    /\ warned = {} /\ draws = Unused /\ qc_list = 0

(***************************************************************************)
(* SpecUnpack: one call of _unpack_num(num, sig).                          *)
(***************************************************************************)
InitUnpack ==
    /\ pc = "unpack_num"
    /\ sig \in Signatures
    /\ num \in Indices(sig_size(sig))
    /\ sigs = Unused /\ res = Unused /\ qc = Unused /\ elem = Unused
    /\ GrabUnused /\ RestUnused

UnpackNum ==
    /\ pc = "unpack_num"
    /\ res' = unpack_num(num, sig)
    /\ pc' = "unpack_num_done"
    /\ UNCHANGED <<num, sig, sigs, qc, elem, grabVars, restVars>>

SpecUnpack == InitUnpack /\ [][UnpackNum]_vars

(***************************************************************************)
(* SpecMulti: one call of _unpack_num_multi_sigs(num, sigs).               *)
(***************************************************************************)
InitMulti ==
    /\ pc = "unpack_num_multi_sigs"
    /\ sigs \in SigLists \cup {CLIFFORD_2_QUBIT_SIGS}
    /\ num \in Indices(TotalSpan(sigs))
    /\ sig = Unused /\ res = Unused /\ qc = Unused /\ elem = Unused
    /\ GrabUnused /\ RestUnused

UnpackNumMultiSigs ==
    /\ pc = "unpack_num_multi_sigs"
    /\ res' = unpack_num_multi_sigs(num, sigs)
    /\ pc' = "unpack_num_multi_sigs_done"
    /\ UNCHANGED <<num, sig, sigs, qc, elem, grabVars, restVars>>

SpecMulti == InitMulti /\ [][UnpackNumMultiSigs]_vars

(***************************************************************************)
(* SpecClifford: one call of clifford_1_qubit(num) or clifford_2_qubit(num)*)
(* (lines 70-80), each of which synthesizes the circuit of num and wraps   *)
(* it as a Clifford.  In clifford_2_qubit_circuit, vals[0] raises          *)
(* TypeError when _unpack_num_multi_sigs returned None.                    *)
(***************************************************************************)
InitClifford ==
    /\ \/ pc = "clifford_1_qubit" /\ num \in Indices(NUM_CLIFFORD_1_QUBIT)
       \/ pc = "clifford_2_qubit" /\ num \in Indices(NUM_CLIFFORD_2_QUBIT)
    /\ sig = Unused /\ sigs = Unused /\ res = Unused /\ qc = Unused /\ elem = Unused
    /\ GrabUnused /\ RestUnused

clifford_1_qubit ==
    /\ pc = "clifford_1_qubit"
    /\ qc' = clifford_1_qubit_circuit(num)
    /\ elem' = Clifford(qc')
    /\ pc' = "clifford_1_qubit_done"
    /\ UNCHANGED <<num, sig, sigs, res, grabVars, restVars>>

clifford_2_qubit ==
    /\ pc = "clifford_2_qubit"
    /\ LET vals == unpack_num_multi_sigs(num, CLIFFORD_2_QUBIT_SIGS)
       IN  IF vals = None
           THEN /\ pc' = "clifford_2_qubit_TypeError"
                /\ UNCHANGED <<qc, elem>>
           ELSE /\ qc' = two_qubit_layers(vals)
                /\ elem' = Clifford(qc')
                /\ pc' = "clifford_2_qubit_done"
    /\ UNCHANGED <<num, sig, sigs, res, grabVars, restVars>>

NextClifford == clifford_1_qubit \/ clifford_2_qubit

SpecClifford == InitClifford /\ [][NextClifford]_vars

(***************************************************************************)
(* random_edgegrab_clifford_circuits, for two or more qubits.              *)
(*                                                                         *)
(* An edge is a pair <<a, b>> of physical qubits.  The random generator is *)
(* an input stream: each draw is a free choice among the values the call   *)
(* can return.  Probabilities are exact fractions <<numerator,             *)
(* denominator>> with a positive denominator.  The locals of one pass of   *)
(* the loop over range(size) are all rebound before they are read in the   *)
(* next pass, so they are cleared when the pass ends; qc_list is kept as   *)
(* the number of circuits appended, each circuit being complete in qc when *)
(* it is appended.                                                         *)
(***************************************************************************)
Range(f) == {f[x] : x \in DOMAIN f}

\* "v in edge"
InEdge(v, e) == v = e[1] \/ v = e[2]

\* all_edges.pop(r): the list without its r-th entry (r counted from 1)
pop(edges, r) == SubSeq(edges, 1, r - 1) \o SubSeq(edges, r + 1, Len(edges))

\* the mutant: only the first endpoint of rand_edge is looked at
keep_disjoint_first(edges, rand_edge) ==
    SelectSeq(edges, LAMBDA e : ~InEdge(rand_edge[1], e))

\* the mutant: every remaining edge is dropped
keep_disjoint_none(edges, rand_edge) == << >>

\* lines 152-157: the edges that share no vertex with rand_edge
keep_disjoint(edges, rand_edge) ==
    SelectSeq(edges, LAMBDA e : ~InEdge(rand_edge[1], e) /\ ~InEdge(rand_edge[2], e))

\* np.where(q == np.asarray(qubits))[0][0]: the first position of q in
\* qubits, counted from 0
logical(qs, q) == (CHOOSE x \in DOMAIN qs : qs[x] = q /\ \A y \in 1..(x - 1) : qs[y] # q) - 1

\* one entry of selected_edges_logical
logical_edge(qs, e) == <<logical(qs, e[1]), logical(qs, e[2])>>

\* the mutant: only the control qubit of the edge is taken out
setdiff1d_first(arr, e) == SelectSeq(arr, LAMBDA q : q # e[1])

\* np.setdiff1d(arr, edge) on a sorted arr without repeats
setdiff1d(arr, e) == SelectSeq(arr, LAMBDA q : ~InEdge(q, e))

\* np.arange(n)
arange(n) == [x \in 1..n |-> x - 1]

\* the mutant: the ZeroDivisionError is swallowed without a warning
try_two_qubit_prob_silent(n, d, m) ==
    IF m = 0
    THEN [prob |-> <<0, 1>>, warn |-> {}]
    ELSE [prob |-> <<n * d[1], d[2] * m>>, warn |-> {}]

\* lines 162-168: two_qubit_prob = 0, then num_qubits * density / len(selected_edges)
\* unless that raises ZeroDivisionError, which is answered with a warning
try_two_qubit_prob(n, d, m) ==
    IF m = 0
    THEN [prob |-> <<0, 1>>, warn |-> {"Device has no connectivity"}]
    ELSE [prob |-> <<n * d[1], d[2] * m>>, warn |-> {}]

\* the mutant: the warning is issued only when two_qubit_prob > 2
density_warning_above_two(p) ==
    IF p[1] > 2 * p[2] THEN {"Mean number of two-qubit gates is higher"} ELSE {}

\* lines 169-173: the warning issued when two_qubit_prob > 1
density_warning(p) ==
    IF p[1] > p[2] THEN {"Mean number of two-qubit gates is higher"} ELSE {}

\* "rng.random() < two_qubit_prob" for the draw c / CoinGrid
below(c, p) == c * p[2] < p[1] * CoinGrid

\* the mutant: all_edges = coupling_map, the same list object
slice_same_object(l) == [list |-> l, same |-> TRUE]

\* l[:]: a new list object with the items of l
slice(l) == [list |-> l, same |-> FALSE]

\* line 147-148: the coupling map is copied, the matching starts empty
CopyCouplingMap ==
    /\ pc = "for"
    /\ all_edges' = slice(coupling_map).list
    /\ aliased' = slice(coupling_map).same
    /\ selected_edges' = << >>
    /\ pc' = "while"
    /\ UNCHANGED <<restVars, rankVars, qc, qubits, coupling_map, two_qubit_gate_density, size,
                   iter, two_qubit_prob, put_1_qubit_clifford, pos, warned, draws,
                   qc_list>>

\* lines 149-157, one pass of "while all_edges": a random edge is popped and
\* selected, and only the edges that share no vertex with it are kept.  The
\* pop changes the list object that all_edges names; line 153 then binds
\* all_edges to a new list.
GrabEdge ==
    /\ pc = "while"
    /\ all_edges # << >>
    /\ \E r \in 1..Len(all_edges) :
          LET rand_edge == all_edges[r]
          IN  /\ selected_edges' = Append(selected_edges, rand_edge)
              /\ coupling_map' = IF aliased THEN pop(all_edges, r) ELSE coupling_map
              /\ all_edges' = keep_disjoint(pop(all_edges, r), rand_edge)
    /\ aliased' = FALSE
    /\ UNCHANGED <<pc, restVars, rankVars, qc, qubits, two_qubit_gate_density, size,
                   iter, two_qubit_prob, put_1_qubit_clifford, pos, warned, draws,
                   qc_list>>

\* lines 160-181, once the while loop has ended: the empty circuit, the
\* probability of a CNOT per selected edge and its warnings, and the qubits
\* still to be given a 1-qubit Clifford
ComputeProb ==
    /\ pc = "while"
    /\ all_edges = << >>
    /\ LET t == try_two_qubit_prob(Len(qubits), two_qubit_gate_density, Len(selected_edges))
       IN  /\ two_qubit_prob' = t.prob
           /\ warned' = warned \cup t.warn \cup density_warning(t.prob)
    /\ qc' = QuantumCircuit(Len(qubits))
    /\ put_1_qubit_clifford' = arange(Len(qubits))
    /\ draws' = << >>
    /\ pos' = 1
    /\ pc' = IF selected_edges = << >> THEN "fill" ELSE "cx"
    /\ UNCHANGED <<restVars, rankVars, aliased, qubits, coupling_map, two_qubit_gate_density, size, iter,
                   all_edges, selected_edges, qc_list>>

\* lines 182-187, one pass of "for edge in selected_edges_logical"
PlaceCX ==
    /\ pc = "cx"
    /\ LET edge == logical_edge(qubits, selected_edges[pos])
           last == pos = Len(selected_edges)
       IN  \E c \in 0..(CoinGrid - 1) :
              LET put == IF below(c, two_qubit_prob)
                         THEN setdiff1d(put_1_qubit_clifford, edge)
                         ELSE put_1_qubit_clifford
              IN  /\ qc' = append_if(qc, below(c, two_qubit_prob), "cx", edge)
                  /\ put_1_qubit_clifford' = put
                  /\ pos' = IF last THEN 1 ELSE pos + 1
                  /\ pc' = IF ~last THEN "cx" ELSE IF put = << >> THEN "append" ELSE "fill"
    /\ UNCHANGED <<restVars, rankVars, aliased, qubits, coupling_map, two_qubit_gate_density, size, iter,
                   all_edges, selected_edges, two_qubit_prob, warned, draws, qc_list>>

\* the mutant: the S-type gate is placed before the Hadamard
inline_1_qubit_clifford_s_first(c, q, idx) ==
    LET d == unpack_num(idx, CLIFFORD_1_QUBIT_SIG)
        c1 == append_if(c, d[2] = 1, "sxdg", <<q>>)
        c2 == append_if(c1, d[2] = 2, "s", <<q>>)
        c3 == append_if(c2, d[1] = 1, "h", <<q>>)
        c4 == append_if(c3, d[3] = 1, "x", <<q>>)
        c5 == append_if(c4, d[3] = 2, "y", <<q>>)
    IN  append_if(c5, d[3] = 3, "z", <<q>>)

\* lines 191-203: the gates of the 1-qubit Clifford of index idx, placed on
\* qubit q by the statements copied from clifford_1_qubit_circuit
inline_1_qubit_clifford(c, q, idx) ==
    LET d == unpack_num(idx, CLIFFORD_1_QUBIT_SIG)
        c1 == append_if(c, d[1] = 1, "h", <<q>>)
        c2 == append_if(c1, d[2] = 1, "sxdg", <<q>>)
        c3 == append_if(c2, d[2] = 2, "s", <<q>>)
        c4 == append_if(c3, d[3] = 1, "x", <<q>>)
        c5 == append_if(c4, d[3] = 2, "y", <<q>>)
    IN  append_if(c5, d[3] = 3, "z", <<q>>)

\* lines 188-203, one pass of "for q in put_1_qubit_clifford"
PlaceClifford ==
    /\ pc = "fill"
    /\ LET q == put_1_qubit_clifford[pos]
           last == pos = Len(put_1_qubit_clifford)
       IN  \E idx \in 0..(NUM_CLIFFORD_1_QUBIT - 1) :
              /\ qc' = inline_1_qubit_clifford(qc, q, idx)
              /\ draws' = Append(draws, <<q, idx>>)
              /\ pos' = IF last THEN 1 ELSE pos + 1
              /\ pc' = IF last THEN "append" ELSE "fill"
    /\ UNCHANGED <<restVars, rankVars, aliased, qubits, coupling_map, two_qubit_gate_density, size, iter,
                   all_edges, selected_edges, two_qubit_prob, put_1_qubit_clifford,
                   warned, qc_list>>

\* the locals of a pass, cleared
PassLocalsCleared ==
    /\ qc' = Unused /\ all_edges' = Unused /\ selected_edges' = Unused
    /\ two_qubit_prob' = Unused /\ put_1_qubit_clifford' = Unused
    /\ draws' = Unused /\ pos' = 0

\* line 204, qc_list.append(qc), and the next pass of the loop over
\* range(size), or line 205, the return
AppendCircuit ==
    /\ pc = "append"
    /\ qc_list' = qc_list + 1
    /\ iter' = iter + 1
    /\ pc' = IF iter + 1 < size THEN "for" ELSE "return"
    /\ PassLocalsCleared
    /\ UNCHANGED <<restVars, rankVars, aliased, qubits, coupling_map, two_qubit_gate_density, size, warned>>

\* the state at the first pass of the loop over range(size)
GrabStart ==
    /\ pc = "for"
    /\ iter = 0 /\ qc_list = 0 /\ warned = {}
    /\ qc = Unused /\ all_edges = Unused /\ selected_edges = Unused
    /\ aliased = FALSE
    /\ two_qubit_prob = Unused /\ put_1_qubit_clifford = Unused
    /\ draws = Unused /\ pos = 0
    /\ num = Unused /\ sig = Unused /\ sigs = Unused /\ res = Unused /\ elem = Unused
    /\ RestUnused

\* the edges between qubits of qs, in either direction
Edges(qs) == {e \in Range(qs) \X Range(qs) : e[1] # e[2]}

\* the coupling maps of at most m edges
CouplingMaps(qs, m) == UNION {[1..x -> Edges(qs)] : x \in 0..m}

\* two_qubit_gate_density: the default 0.25, and 1.0
Densities == {<<1, 4>>, <<1, 1>>}

(***************************************************************************)
(* SpecGrab: one call of random_edgegrab_clifford_circuits on 2 or 3       *)
(* qubits.                                                                 *)
(***************************************************************************)
GrabQubits == {<<0, 1>>, <<8, 4, 5>>}

InitGrab ==
    /\ qubits \in GrabQubits
    /\ coupling_map \in CouplingMaps(qubits, MaxGrabEdges)
    /\ two_qubit_gate_density \in Densities
    /\ size = MaxSize
    /\ GrabStart

NextGrab ==
    \/ CopyCouplingMap
    \/ GrabEdge
    \/ ComputeProb
    \/ PlaceCX
    \/ PlaceClifford
    \/ AppendCircuit

SpecGrab == InitGrab /\ [][NextGrab]_vars

(***************************************************************************)
(* SpecMatch: the matching of random_edgegrab_clifford_circuits alone      *)
(* (lines 145-157) on up to MaxQubits qubits.  Lines 159-204 read          *)
(* selected_edges and write neither it nor all_edges nor coupling_map, so  *)
(* the rest of a pass is one step here.                                    *)
(***************************************************************************)
\* n physical qubits, listed in descending order
MatchQubits(n) == [x \in 1..n |-> n - x]

MatchingDone ==
    /\ pc = "while"
    /\ all_edges = << >>
    /\ iter' = iter + 1
    /\ pc' = IF iter + 1 < size THEN "for" ELSE "return"
    /\ all_edges' = Unused /\ selected_edges' = Unused
    /\ UNCHANGED <<restVars, rankVars, qc, aliased, qubits, coupling_map,
                   two_qubit_gate_density, size, two_qubit_prob, put_1_qubit_clifford, pos, warned, draws, qc_list>>

InitMatch ==
    /\ \E n \in 2..MaxQubits : qubits = MatchQubits(n)
    /\ coupling_map \in CouplingMaps(qubits, MaxEdges)
    /\ two_qubit_gate_density = <<1, 4>>
    /\ size = MaxSize
    /\ GrabStart

NextMatch == CopyCouplingMap \/ GrabEdge \/ MatchingDone

SpecMatch == InitMatch /\ [][NextMatch]_vars

(***************************************************************************)
(* Properties of the unranking.                                            *)
(***************************************************************************)
\* sum over i of d[i] * (product of s[j] for j < i)
RECURSIVE RecomposeFrom(_, _, _)
RecomposeFrom(d, s, x) ==
    IF x > Len(d) THEN 0
    ELSE d[x] * sig_size(SubSeq(s, 1, x - 1)) + RecomposeFrom(d, s, x + 1)

Recompose(d, s) == RecomposeFrom(d, s, 1)

\* d is a digit tuple of signature s
DigitsOf(d, s) == Len(d) = Len(s) /\ \A x \in DOMAIN s : 0 <= d[x] /\ d[x] < s[x]

\* C1: for a signature of positive radices and an index in its range,
\* _unpack_num returns one digit per radix, each digit below its radix, and
\* the sum of digit * (product of the earlier radices) is the index again.
C1_RoundTrip ==
    (pc = "unpack_num_done" /\ 0 <= num /\ num < sig_size(sig)) =>
        (DigitsOf(res, sig) /\ Recompose(res, sig) = num)

C1_Witness ==
    pc = "unpack_num_done" /\ sig = <<2, 3, 3>> /\ num = 11 /\ res = <<1, 2, 1>>

\* C2: the digit tuples of the 24 indices under (2, 3, 4) are pairwise
\* distinct, and so are the 24 group elements of the circuits synthesized:
\* no other index has the digits or the element of the index synthesized.
C2_Distinct1Qubit ==
    (pc = "clifford_1_qubit_done" /\ num \in 0..(NUM_CLIFFORD_1_QUBIT - 1)) =>
        \A j \in 0..(NUM_CLIFFORD_1_QUBIT - 1) :
            j # num =>
                /\ unpack_num(j, CLIFFORD_1_QUBIT_SIG) # unpack_num(num, CLIFFORD_1_QUBIT_SIG)
                /\ Clifford(clifford_1_qubit_circuit(j)) # elem

C2_Witness ==
    /\ pc = "clifford_1_qubit_done" /\ num = 23
    /\ qc.data = << <<"h", <<0>> >>, <<"s", <<0>> >>, <<"z", <<0>> >> >>

\* the sum of the spans of the first x signatures of ss
CumSpan(ss, x) == TotalSpan(SubSeq(ss, 1, x))

\* what _unpack_num_multi_sigs returns over the whole range of the 2-qubit group
Unranked2 ==
    {unpack_num_multi_sigs(j, CLIFFORD_2_QUBIT_SIGS) : j \in 0..(NUM_CLIFFORD_2_QUBIT - 1)}

\* C3: the spans of CLIFFORD_2_QUBIT_SIGS sum to 11520; an index in
\* [0, 11520) is given the first form whose cumulative span exceeds it and
\* digits in range for that form's signature (the digits of the index less
\* the spans of the earlier forms); and the 11520 indices are given 11520
\* different (form, digits) lists, so no two indices share one.
C3_MultiSigs ==
    /\ TotalSpan(CLIFFORD_2_QUBIT_SIGS) = NUM_CLIFFORD_2_QUBIT
    /\ (/\ pc = "unpack_num_multi_sigs_done"
        /\ sigs = CLIFFORD_2_QUBIT_SIGS
        /\ num \in 0..(NUM_CLIFFORD_2_QUBIT - 1)) =>
            /\ res # None
            /\ res[1] \in 0..(Len(sigs) - 1)
            /\ CumSpan(sigs, res[1]) <= num
            /\ num < CumSpan(sigs, res[1] + 1)
            /\ DigitsOf(Tail(res), sigs[res[1] + 1])
            /\ CumSpan(sigs, res[1]) + Recompose(Tail(res), sigs[res[1] + 1]) = num
            /\ res \in Unranked2
            /\ Cardinality(Unranked2) = NUM_CLIFFORD_2_QUBIT

C3_Witness ==
    /\ pc = "unpack_num_multi_sigs_done" /\ sigs = CLIFFORD_2_QUBIT_SIGS
    /\ num = 5760 /\ res = <<2, 0, 0, 0, 0, 0, 0, 0, 0>>

\* clifford_2_qubit_circuit on an index that _unpack_num_multi_sigs resolves
clifford_2_qubit_circuit(n) ==
    two_qubit_layers(unpack_num_multi_sigs(n, CLIFFORD_2_QUBIT_SIGS))

\* the group elements of the circuits of all indices of the 2-qubit group
Elements2 ==
    {Clifford(clifford_2_qubit_circuit(j)) : j \in 0..(NUM_CLIFFORD_2_QUBIT - 1)}

\* C4: the elements synthesized for the indices in [0, 11520) are pairwise
\* distinct: the element of each index is one of the elements of the range,
\* and the 11520 indices of the range yield 11520 different elements.
C4_Distinct2Qubit ==
    (pc = "clifford_2_qubit_done" /\ num \in 0..(NUM_CLIFFORD_2_QUBIT - 1)) =>
        /\ elem \in Elements2
        /\ Cardinality(Elements2) = NUM_CLIFFORD_2_QUBIT

C4_Witness ==
    /\ pc = "clifford_2_qubit_done" /\ num = 11519
    /\ Len(qc.data) = 9 /\ qc.data[5] = <<"cx", <<0, 1>> >>

\* the layer a gate belongs to, by its name
LayerOf(g) ==
    CASE g[1] = "h" -> 1
      [] g[1] \in {"sxdg", "s"} -> 2
      [] g[1] = "cx" -> 3
      [] g[1] \in {"v", "w"} -> 4
      [] g[1] \in {"x", "y", "z"} -> 5

\* the gates of layer l of the circuit c, in their order
LayerGates(c, l) == SelectSeq(c.data, LAMBDA g : LayerOf(g) = l)

\* the entangling layer of each form
EntanglingOf(form) ==
    CASE form = 0 -> << >>
      [] form = 1 -> << <<"cx", <<0, 1>> >> >>
      [] form = 2 -> << <<"cx", <<0, 1>> >>, <<"cx", <<1, 0>> >> >>
      [] form = 3 -> << <<"cx", <<0, 1>> >>, <<"cx", <<1, 0>> >>, <<"cx", <<0, 1>> >> >>

\* the correction gates of digit k0 on qubit 0 and of digit k1 on qubit 1
CorrectionOf(k0, k1) ==
    (CASE k0 = 0 -> << >>
       [] k0 = 1 -> << <<"v", <<0>> >> >>
       [] k0 = 2 -> << <<"w", <<0>> >> >>)
    \o (CASE k1 = 0 -> << >>
          [] k1 = 1 -> << <<"v", <<1>> >> >>
          [] k1 = 2 -> << <<"v", <<1>> >>, <<"v", <<1>> >> >>)

\* C17: for every index in [0, 11520) the gates of
\* clifford_2_qubit_circuit come in the order Hadamard, S-type, entangling,
\* correction, Pauli; the entangling layer is none, CNOT(0,1), CNOT(0,1)
\* CNOT(1,0), or CNOT(0,1) CNOT(1,0) CNOT(0,1) for forms 0, 1, 2, 3; forms
\* 0 and 3 have no correction layer, and forms 1 and 2 have V for k = 1 on
\* either qubit, one W for k0 = 2 on qubit 0 and V twice for k1 = 2 on
\* qubit 1.
C17_LayerOrder ==
    (pc = "clifford_2_qubit_done" /\ num \in 0..(NUM_CLIFFORD_2_QUBIT - 1)) =>
        LET vals == unpack_num_multi_sigs(num, CLIFFORD_2_QUBIT_SIGS)
            form == vals[1]
        IN  /\ \A a, b \in DOMAIN qc.data :
                  a < b => LayerOf(qc.data[a]) <= LayerOf(qc.data[b])
            /\ LayerGates(qc, 3) = EntanglingOf(form)
            /\ form \in {0, 3} => LayerGates(qc, 4) = << >>
            /\ form \in {1, 2} => LayerGates(qc, 4) = CorrectionOf(vals[6], vals[7])

C17_Witness ==
    /\ pc = "clifford_2_qubit_done" /\ num = 6048
    /\ qc.data = << <<"cx", <<0, 1>> >>, <<"cx", <<1, 0>> >>,
                    <<"w", <<0>> >>, <<"v", <<1>> >>, <<"v", <<1>> >> >>

\* C5: _unpack_num_multi_sigs gives its out-of-range result (None: no form,
\* no digits) whenever the index is at least the sum of the spans.
C5_OutOfRange ==
    (pc = "unpack_num_multi_sigs_done" /\ num >= TotalSpan(sigs)) => res = None

C5_Witness ==
    /\ pc = "unpack_num_multi_sigs_done" /\ sigs = CLIFFORD_2_QUBIT_SIGS
    /\ num = NUM_CLIFFORD_2_QUBIT /\ res = None

\* C6 (as claimed): no circuit is returned for an index outside
\* [0, 24) resp. [0, 11520): the call is rejected.
C6_OutOfRangeRejected ==
    /\ pc = "clifford_1_qubit_done" => num \in 0..(NUM_CLIFFORD_1_QUBIT - 1)
    /\ pc = "clifford_2_qubit_done" => num \in 0..(NUM_CLIFFORD_2_QUBIT - 1)

(***************************************************************************)
(* Properties of the edge-grab sampler.                                    *)
(***************************************************************************)
SharesVertex(e, f) == InEdge(e[1], f) \/ InEdge(e[2], f)

\* C7: after every pass of the selection loop (and before the first), no
\* two selected edges share an endpoint and every selected edge is an edge
\* of the coupling map passed in.
C7_Matching ==
    pc = "while" =>
        /\ \A a, b \in DOMAIN selected_edges :
              a # b => ~SharesVertex(selected_edges[a], selected_edges[b])
        /\ \A a \in DOMAIN selected_edges : selected_edges[a] \in Range(coupling_map)

C7_Witness ==
    /\ pc = "while" /\ all_edges = << >>
    /\ Len(coupling_map) = 3 /\ Len(selected_edges) = 2

\* the selection loop has ended
LoopEnded == pc = "while" /\ all_edges = << >>

\* C9: when the selection loop ends the matching is maximal: every edge of
\* the coupling map is selected or shares an endpoint with a selected edge.
C9_Maximal ==
    LoopEnded =>
        \A e \in Range(coupling_map) :
            \/ e \in Range(selected_edges)
            \/ \E f \in Range(selected_edges) : SharesVertex(e, f)

C9_Witness ==
    /\ LoopEnded
    /\ coupling_map = << <<3, 2>>, <<2, 1>>, <<1, 0>> >>
    /\ selected_edges = << <<2, 1>> >>

\* the number of CNOTs of the circuit that act on logical qubit q
CxCount(c, q) ==
    Cardinality({x \in DOMAIN c.data : c.data[x][1] = "cx" /\ q \in Range(c.data[x][2])})

\* the number of 1-qubit Cliffords sampled for logical qubit q
CliffordCount(d, q) == Cardinality({x \in DOMAIN d : d[x][1] = q})

\* the circuit of this pass is complete and about to be appended to qc_list
CircuitComplete == pc = "append"

\* C8: in every circuit produced for 2 or more qubits, each logical qubit
\* is an endpoint of exactly one placed CNOT or is given exactly one
\* sampled 1-qubit Clifford, never both and never neither; the 1-qubit
\* gates of the circuit are on the qubits given a Clifford.
C8_Coverage ==
    CircuitComplete =>
        /\ \A q \in 0..(Len(qubits) - 1) : CxCount(qc, q) + CliffordCount(draws, q) = 1
        /\ \A x \in DOMAIN qc.data :
              qc.data[x][1] # "cx" => CliffordCount(draws, qc.data[x][2][1]) = 1

C8_Witness ==
    /\ CircuitComplete /\ Len(qubits) = 3
    /\ \E q \in 0..2 : CxCount(qc, q) = 0 /\ CliffordCount(draws, q) = 1
    /\ \E q \in 0..2 : CxCount(qc, q) = 1 /\ CliffordCount(draws, q) = 0

\* C10: with an empty coupling map and 2 or more qubits the call does not
\* fail: every circuit comes with the no-connectivity warning issued, holds
\* no CNOT and only 1-qubit gates, and has one sampled 1-qubit Clifford for
\* every qubit; and the call returns with all size circuits appended.
C10_NoConnectivity ==
    (coupling_map = << >> /\ Len(qubits) >= 2) =>
        /\ CircuitComplete =>
              /\ "Device has no connectivity" \in warned
              /\ \A x \in DOMAIN qc.data :
                    qc.data[x][1] # "cx" /\ Len(qc.data[x][2]) = 1
              /\ \A q \in 0..(Len(qubits) - 1) : CliffordCount(draws, q) = 1
              /\ Len(draws) = Len(qubits)
        /\ pc = "return" => qc_list = size

C10_Witness ==
    /\ coupling_map = << >> /\ CircuitComplete
    /\ qubits = <<8, 4, 5>> /\ Len(qc.data) = 9 /\ qc_list = 1

\* C16: random_edgegrab_clifford_circuits leaves the list passed as
\* coupling_map as it was (no step of the call changes it, so after the
\* return it holds the same edges in the same order), and every pass of
\* the loop over range(size) starts its matching from the whole coupling
\* map.
C16_CouplingMapUnchanged ==
    [][/\ coupling_map' = coupling_map
       /\ (pc = "for" /\ pc' = "while") => all_edges' = coupling_map]_vars

C16_Witness ==
    /\ pc = "while" /\ iter = 1 /\ selected_edges = << >>
    /\ Len(coupling_map) = 3 /\ all_edges = coupling_map /\ ~aliased

\* two_qubit_prob has been computed in this pass and exceeds 1
ProbAboveOne ==
    /\ pc \in {"cx", "fill", "append"}
    /\ two_qubit_prob[1] > two_qubit_prob[2]

\* every gate of c acts on logical qubits of the register, a CNOT on two
\* different ones
WellFormed(c) ==
    \A x \in DOMAIN c.data :
        /\ Range(c.data[x][2]) \subseteq 0..(c.num_qubits - 1)
        /\ c.data[x][1] = "cx" =>
              Len(c.data[x][2]) = 2 /\ c.data[x][2][1] # c.data[x][2][2]

\* C11: when two_qubit_prob = n * d / len(selected_edges) exceeds 1 the
\* call does not fail: the density warning has been issued, the circuit of
\* the pass is completed as a well-formed circuit on n qubits in which
\* every selected edge carries its CNOT and every other qubit one 1-qubit
\* Clifford, and the call returns with all size circuits appended.
C11_DensityWarning ==
    /\ ProbAboveOne => "Mean number of two-qubit gates is higher" \in warned
    /\ (ProbAboveOne /\ CircuitComplete) =>
          /\ qc.num_qubits = Len(qubits)
          /\ WellFormed(qc)
          /\ \A a \in DOMAIN selected_edges :
                <<"cx", logical_edge(qubits, selected_edges[a])>> \in Range(qc.data)
          /\ \A q \in 0..(Len(qubits) - 1) :
                CxCount(qc, q) + CliffordCount(draws, q) = 1
    /\ pc = "return" => qc_list = size

C11_Witness ==
    /\ ProbAboveOne /\ CircuitComplete
    /\ qubits = <<8, 4, 5>> /\ two_qubit_prob = <<3, 1>>
    /\ qc.data[1] = <<"cx", <<2, 1>> >> /\ Len(draws) = 1
    /\ "Mean number of two-qubit gates is higher" \in warned

\* the names of the gates of a gate list, in their order
GateNames(data) == [x \in DOMAIN data |-> data[x][1]]

\* the 1-qubit gates that the circuit c has on qubit q, in their order
GatesOn(c, q) == SelectSeq(c.data, LAMBDA g : g[2] = <<q>>)

\* C18: for every index and every qubit q given a 1-qubit Clifford, the
\* gates that random_edgegrab_clifford_circuits has placed on q have the
\* names, in the order, of the gates of clifford_1_qubit_circuit(index),
\* which are all on qubit 0.
C18_InlineMatchesCached ==
    pc \in {"fill", "append"} =>
        \A x \in DOMAIN draws :
            LET q == draws[x][1]
                cached == clifford_1_qubit_circuit(draws[x][2])
            IN  /\ GateNames(GatesOn(qc, q)) = GateNames(cached.data)
                /\ \A y \in DOMAIN cached.data : cached.data[y][2] = <<0>>

C18_Witness ==
    /\ CircuitComplete /\ qubits = <<8, 4, 5>> /\ coupling_map = << >>
    /\ draws = << <<0, 0>>, <<1, 8>>, <<2, 23>> >>
    /\ qc.data = << <<"sxdg", <<1>> >>, <<"x", <<1>> >>,
                    <<"h", <<2>> >>, <<"s", <<2>> >>, <<"z", <<2>> >> >>

(***************************************************************************)
(* The memoized methods: @lru_cache(maxsize=24) around                     *)
(* clifford_1_qubit_circuit (line 207) and @lru_cache(maxsize=11520)       *)
(* around clifford_2_qubit_circuit (line 231).                             *)
(*                                                                         *)
(* functools.lru_cache keeps one cache per decorated function, so one per  *)
(* method for the whole process, keyed by the positional arguments of the  *)
(* call, here (self, num).  A hit returns the cached object itself, not a  *)
(* copy, and makes its entry the most recently used.  On a miss the method *)
(* body runs outside the lock of the cache, and its result is inserted     *)
(* afterwards unless the key has been inserted meanwhile; an insertion     *)
(* into a full cache drops the least recently used entry.                  *)
(*                                                                         *)
(* A call is a record [n, self, num]: the method of n qubits, called on    *)
(* the CliffordUtils object self with index num.  A QuantumCircuit object  *)
(* is a number id with its value in heap[id].                              *)
(***************************************************************************)
\* the maxsize argument of the decorator of the method of n qubits
maxsize(n) == IF n = 1 THEN NUM_CLIFFORD_1_QUBIT ELSE NUM_CLIFFORD_2_QUBIT

\* the key lru_cache makes of the arguments (self, num)
make_key(c) == <<c.self, c.num>>

\* the position of key in the entries c, 0 when it is not cached
find(c, key) ==
    IF \E x \in DOMAIN c : c[x].key = key
    THEN CHOOSE x \in DOMAIN c : c[x].key = key
    ELSE 0

\* a hit: the x-th entry becomes the most recently used
touch(c, x) == pop(c, x) \o <<c[x]>>

\* the mutant: the result of the body is never inserted
insert_dropped(c, key, id, m) == c

\* after a miss: the result is inserted, unless the key is cached by now,
\* and the least recently used entry is dropped from a full cache
insert(c, key, id, m) ==
    IF find(c, key) # 0 THEN c
    ELSE IF Len(c) >= m THEN Append(Tail(c), [key |-> key, id |-> id])
    ELSE Append(c, [key |-> key, id |-> id])

\* the circuit the body of the method of n qubits builds for index i
synthesis(n, i) == IF n = 1 THEN clifford_1_qubit_circuit(i) ELSE clifford_2_qubit_circuit(i)

\* the identity of a newly created object
NewId(h) ==
    CHOOSE x \in 1..(Cardinality(DOMAIN h) + 1) :
        x \notin DOMAIN h /\ \A y \in 1..(x - 1) : y \in DOMAIN h

\* the objects still referenced: by a cache or by the caller they were
\* returned to
Live(cc, cl) ==
    (UNION {{cc[n][x].id : x \in DOMAIN cc[n]} : n \in DOMAIN cc}
        \cup {cl[t].ret : t \in DOMAIN cl}) \ {0}

\* the heap h with the object id of value v added, without the objects
\* that nothing references any more
Collect(h, id, v, cc, cl) ==
    [x \in (DOMAIN h \cup {id}) \cap Live(cc, cl) |-> IF x = id THEN v ELSE h[x]]

\* a caller that has made no call yet
NoCall == [n |-> 0, self |-> "", num |-> 0, qc |-> Unused, ret |-> 0]

\* the wrapper of lru_cache is entered: on a hit the cached object is
\* returned, on a miss the body of the method is entered
CallWrapper(t) ==
    /\ pc[t] \in {"idle", "returned"}
    /\ want[t] # << >>
    /\ LET c == Head(want[t])
           x == find(cache[c.n], make_key(c))
           cc == IF x = 0 THEN cache ELSE [cache EXCEPT ![c.n] = touch(@, x)]
           cl == [call EXCEPT ![t] = [n |-> c.n, self |-> c.self, num |-> c.num, qc |-> Unused,
                                      ret |-> IF x = 0 THEN 0 ELSE cache[c.n][x].id]]
       IN  /\ cache' = cc
           /\ call' = cl
           /\ heap' = Collect(heap, 0, Unused, cc, cl)
           /\ pc' = [pc EXCEPT ![t] = IF x = 0 THEN "body" ELSE "returned"]
    /\ want' = [want EXCEPT ![t] = Tail(@)]
    /\ UNCHANGED <<synth, rankVars, qc, grabVars, num_qubits, splitVars>>

\* lines 212-213 and 234-235: the body unpacks num and creates the empty circuit
NewCircuit(t) ==
    /\ pc[t] = "body"
    /\ call' = [call EXCEPT ![t].qc = QuantumCircuit(call[t].n)]
    /\ synth' = synth (+) SetToBag({<<call[t].n, make_key(call[t])>>})
    /\ pc' = [pc EXCEPT ![t] = "layers"]
    /\ UNCHANGED <<cache, heap, want, rankVars, qc, grabVars, num_qubits, splitVars>>

\* lines 214-229 and 236-283: the body appends the gates and returns qc
AppendLayers(t) ==
    /\ pc[t] = "layers"
    /\ call' = [call EXCEPT ![t].qc = synthesis(call[t].n, call[t].num)]
    /\ pc' = [pc EXCEPT ![t] = "insert"]
    /\ UNCHANGED <<cache, heap, synth, want, rankVars, qc, grabVars, num_qubits, splitVars>>

\* the wrapper of lru_cache inserts the object the body returned and
\* returns it
CacheInsert(t) ==
    /\ pc[t] = "insert"
    /\ LET id == NewId(heap)
           cc == [cache EXCEPT ![call[t].n] = insert(@, make_key(call[t]), id, maxsize(call[t].n))]
           cl == [call EXCEPT ![t].qc = Unused, ![t].ret = id]
       IN  /\ cache' = cc
           /\ call' = cl
           /\ heap' = Collect(heap, id, call[t].qc, cc, cl)
    /\ pc' = [pc EXCEPT ![t] = "returned"]
    /\ UNCHANGED <<synth, want, rankVars, qc, grabVars, num_qubits, splitVars>>

\* the barriers that callers have appended to the circuits alive
Appended(h) ==
    UNION {{<<id, x>> : x \in {y \in DOMAIN h[id].data : h[id].data[y][1] = "barrier"}} :
           id \in DOMAIN h}

\* the caller appends a gate (a barrier) to the circuit it was handed last
CallerAppend(t) ==
    /\ pc[t] \in {"idle", "returned"}
    /\ call[t].ret # 0
    /\ Cardinality(Appended(heap)) < MaxAppended
    /\ heap' = [heap EXCEPT ![call[t].ret] = append(@, "barrier", <<0>>)]
    /\ pc' = [pc EXCEPT ![t] = "idle"]
    /\ UNCHANGED <<cache, synth, want, call, rankVars, qc, grabVars, num_qubits, splitVars>>

\* no object, no entry, no call made
CacheStart ==
    /\ cache = [n \in 1..2 |-> << >>]
    /\ heap = << >>
    /\ synth = EmptyBag
    /\ call = [t \in DOMAIN pc |-> NoCall]
    /\ \A t \in DOMAIN pc : pc[t] = "idle"
    /\ num = Unused /\ sig = Unused /\ sigs = Unused /\ res = Unused /\ elem = Unused
    /\ qc = Unused /\ num_qubits = 0
    /\ GrabUnused /\ SplitUnused

Call(n, u, i) == [n |-> n, self |-> u, num |-> i]

SeqsUpTo(S, m) == UNION {[1..x -> S] : x \in 0..m}

(***************************************************************************)
(* SpecCache: one caller that goes through the first indices of the        *)
(* 1-qubit group on the CliffordUtils object "a" and then makes up to      *)
(* MaxExtra calls more, on "a" or on a second object "b".                  *)
(***************************************************************************)
\* the calls of a caller that goes through all 1-qubit indices on object u
Sweep(u) == [x \in 1..NUM_CLIFFORD_1_QUBIT |-> Call(1, u, x - 1)]

ExtraCalls == {Call(1, "a", 0), Call(1, "b", 0), Call(2, "a", 0), Call(2, "b", 11519)}

InitCache ==
    /\ pc = [t \in {1} |-> "idle"]
    /\ \E x \in 0..NUM_CLIFFORD_1_QUBIT, extra \in SeqsUpTo(ExtraCalls, MaxExtra) :
          want = [t \in {1} |-> SubSeq(Sweep("a"), 1, x) \o extra]
    /\ CacheStart

\* one step of some caller: the interpreter runs whichever thread it picks
AnyCallWrapper == \E t \in DOMAIN pc : CallWrapper(t)

AnyNewCircuit == \E t \in DOMAIN pc : NewCircuit(t)

AnyAppendLayers == \E t \in DOMAIN pc : AppendLayers(t)

AnyCacheInsert == \E t \in DOMAIN pc : CacheInsert(t)

NextCache ==
    \/ AnyCallWrapper
    \/ AnyNewCircuit
    \/ AnyAppendLayers
    \/ AnyCacheInsert

SpecCache == InitCache /\ [][NextCache]_vars

\* C12 (as claimed): over any sequence of in-range lookups, by whatever
\* caller, a cache never holds more than 24 resp. 11520 entries and never
\* evicts: every key that has been synthesized is served from the cache
\* from then on, so no key is synthesized a second time.
C12_NeverEvicts ==
    /\ \A n \in DOMAIN cache : Len(cache[n]) <= maxsize(n)
    /\ \A k \in BagToSet(synth) : CopiesIn(k, synth) <= 1

(***************************************************************************)
(* SpecThreads: MaxThreads threads that each call the same cached method   *)
(* with the same arguments twice, starting together on empty caches.  A    *)
(* step of a thread is a step of NextCache; the steps of different threads *)
(* interleave in any order, the wrapper holding the lock of the cache only *)
(* during CallWrapper and during CacheInsert.                              *)
(***************************************************************************)
ThreadCalls == {Call(1, "a", 0), Call(1, "a", 23), Call(2, "a", 0), Call(2, "a", 11519)}

InitThreads ==
    /\ pc = [t \in 1..MaxThreads |-> "idle"]
    /\ \E c \in ThreadCalls : want = [t \in 1..MaxThreads |-> <<c, c>>]
    /\ CacheStart

SpecThreads == InitThreads /\ [][NextCache]_vars

\* C13 (as claimed): whatever the number of concurrent callers of one key,
\* its synthesis runs at most twice in total.
C13_AtMostTwice ==
    \A k \in BagToSet(synth) : CopiesIn(k, synth) <= 2

\* C13 (amended): when callers request the same uncached key concurrently,
\* its synthesis runs at most once per caller (so up to as many times as
\* there are callers); a caller that asks again after its first call has
\* returned is served from the cache; every object in a cache and every
\* object returned holds the complete gate sequence of its index.
C13_OncePerCaller ==
    /\ \A k \in BagToSet(synth) : CopiesIn(k, synth) <= Cardinality(DOMAIN pc)
    /\ \A t \in DOMAIN pc : want[t] = << >> => pc[t] = "returned"
    /\ \A t \in DOMAIN pc :
          pc[t] = "returned" => heap[call[t].ret] = synthesis(call[t].n, call[t].num)
    /\ \A n \in DOMAIN cache : \A x \in DOMAIN cache[n] :
          heap[cache[n][x].id] = synthesis(n, cache[n][x].key[2])

C13_Witness ==
    /\ CopiesIn(<<2, <<"a", 11519>> >>, synth) = MaxThreads
    /\ \A t \in DOMAIN pc : want[t] = << >> /\ pc[t] = "returned"
    /\ Len(cache[2]) = 1
    /\ \A t \in DOMAIN pc : call[t].ret = cache[2][1].id

(***************************************************************************)
(* SpecAlias: one caller that makes up to MaxCalls calls of the cached     *)
(* methods and may append a gate to the circuit a call handed it.          *)
(***************************************************************************)
InitAlias ==
    /\ pc = [t \in {1} |-> "idle"]
    /\ \E calls \in SeqsUpTo(ThreadCalls, MaxCalls) : want = [t \in {1} |-> calls]
    /\ CacheStart

AnyCallerAppend == \E t \in DOMAIN pc : CallerAppend(t)

NextAlias ==
    \/ AnyCallWrapper
    \/ AnyNewCircuit
    \/ AnyAppendLayers
    \/ AnyCacheInsert
    \/ AnyCallerAppend

SpecAlias == InitAlias /\ [][NextAlias]_vars

\* C19 (as claimed): whatever lookups were made before and whatever the
\* callers did with the circuits they were handed, appending gates
\* included, the circuit that clifford_1_qubit_circuit(index) or
\* clifford_2_qubit_circuit(index) returns equals the one a fresh synthesis
\* of that index builds.
C19_ReturnsFresh ==
    \A t \in DOMAIN pc :
        pc[t] = "returned" => heap[call[t].ret] = synthesis(call[t].n, call[t].num)

(***************************************************************************)
(* random_cliffords and random_clifford_circuits (lines 82-120).           *)
(*                                                                         *)
(* A returned Python value carries its type.  A list is kept as its        *)
(* length, the item built last being in elem (a Clifford) or in qc (a      *)
(* circuit); rng.integers(24, size=size) is an array of size samples, each *)
(* in 0..23, drawn here when the comprehension comes to it.  What the      *)
(* external sampler random_clifford returns is known by type and width     *)
(* only.                                                                   *)
(***************************************************************************)
list(len) == [type |-> "list", len |-> len]

\* qiskit.quantum_info.random_clifford(num_qubits, seed=rng)
random_clifford(n) == [type |-> "Clifford", num_qubits |-> n]

\* Clifford.to_circuit()
to_circuit(e) == [type |-> "QuantumCircuit", num_qubits |-> e.num_qubits]

\* lines 95-100, 114-120: "if num_qubits == 1: rng.integers(24, ...) else:
\* rng.integers(11520, ...)"
samples_high(n) == IF n = 1 THEN NUM_CLIFFORD_1_QUBIT ELSE NUM_CLIFFORD_2_QUBIT

\* the values of one sample of rng.integers(high, size=size) that are
\* tried: all those below 24, and the first and the last of every further
\* run of 576 values (576 is the span of the shortest 2-qubit form)
integers(high) ==
    {i \in 0..(high - 1) : i < NUM_CLIFFORD_1_QUBIT \/ i % 576 = 0 \/ i % 576 = 575}

\* lines 86-87: random_cliffords hands back what random_clifford returns
random_cliffords_external ==
    /\ pc = "random_cliffords"
    /\ num_qubits > 2
    /\ res' = random_clifford(num_qubits)
    /\ pc' = "random_cliffords_done"
    /\ UNCHANGED <<num, sig, sigs, elem, qc, grabVars, restVars>>

\* lines 95-100: one item of the list of random_cliffords; the list is returned
\* when the samples are used up
random_cliffords_item ==
    /\ pc = "random_cliffords"
    /\ num_qubits <= 2
    /\ IF qc_list < size
       THEN \E i \in integers(samples_high(num_qubits)) :
               /\ num' = i
               /\ elem' = Clifford(synthesis(num_qubits, i))
               /\ qc_list' = qc_list + 1
               /\ UNCHANGED <<pc, res>>
       ELSE /\ res' = list(qc_list)
            /\ pc' = "random_cliffords_done"
            /\ UNCHANGED <<num, elem, qc_list>>
    /\ UNCHANGED <<sig, sigs, qc, restVars>>
    /\ UNCHANGED <<qubits, coupling_map, two_qubit_gate_density, size, iter, all_edges,
                   aliased, selected_edges, two_qubit_prob, put_1_qubit_clifford, pos,
                   warned, draws>>

\* lines 106-107 and 114-120: one item of the list of random_clifford_circuits;
\* the list is returned after size items
random_clifford_circuits_item ==
    /\ pc = "random_clifford_circuits"
    /\ IF qc_list < size
       THEN /\ IF num_qubits > 2
               THEN /\ qc' = to_circuit(random_clifford(num_qubits))
                    /\ num' = num
               ELSE \E i \in integers(samples_high(num_qubits)) :
                       /\ num' = i
                       /\ qc' = synthesis(num_qubits, i)
            /\ qc_list' = qc_list + 1
            /\ UNCHANGED <<pc, res>>
       ELSE /\ res' = list(qc_list)
            /\ pc' = "random_clifford_circuits_done"
            /\ UNCHANGED <<num, qc, qc_list>>
    /\ UNCHANGED <<sig, sigs, elem, restVars>>
    /\ UNCHANGED <<qubits, coupling_map, two_qubit_gate_density, size, iter, all_edges,
                   aliased, selected_edges, two_qubit_prob, put_1_qubit_clifford, pos,
                   warned, draws>>

InitRandom ==
    /\ pc \in {"random_cliffords", "random_clifford_circuits"}
    /\ num_qubits \in 1..MaxNumQubits
    /\ size \in 1..MaxSize
    /\ num = Unused /\ sig = Unused /\ sigs = Unused /\ res = Unused /\ elem = Unused
    /\ qc = Unused
    /\ qubits = Unused /\ coupling_map = Unused /\ two_qubit_gate_density = Unused
    /\ iter = 0 /\ all_edges = Unused /\ selected_edges = Unused /\ aliased = FALSE
    /\ two_qubit_prob = Unused /\ put_1_qubit_clifford = Unused /\ pos = 0
    /\ warned = {} /\ draws = Unused /\ qc_list = 0
    /\ CacheUnused /\ SplitUnused

NextRandom ==
    \/ random_cliffords_external
    \/ random_cliffords_item
    \/ random_clifford_circuits_item

SpecRandom == InitRandom /\ [][NextRandom]_vars

\* a call of random_cliffords or random_clifford_circuits has returned
RandomDone == pc \in {"random_cliffords_done", "random_clifford_circuits_done"}

\* C14 (as claimed): random_cliffords and random_clifford_circuits return a
\* list of exactly size items for every num_qubits >= 1, also above 2, and
\* for num_qubits <= 2 every index drawn is in the range of the group.
C14_ListOfSize ==
    /\ RandomDone => (res.type = "list" /\ res.len = size)
    /\ (num_qubits \in 1..2 /\ qc_list > 0) =>
          (0 <= num /\ num < (IF num_qubits = 1 THEN 24 ELSE 11520))

(***************************************************************************)
(* compute_target_bitstring (lines 310-326).  A Python string is the       *)
(* sequence of its characters.                                             *)
(***************************************************************************)
\* Clifford(circuit).table.phase: the phases of the 2n rows
phase(t) == [r \in DOMAIN t |-> t[r].phase]

\* the mutant: the trailing entries are not reversed
compute_target_bitstring_unreversed(c) ==
    LET phase_vector == phase(Clifford(c))
        n == c.num_qubits
        tail == SubSeq(phase_vector, n + 1, Len(phase_vector))
    IN  [x \in 1..Len(tail) |-> IF tail[x] THEN "1" ELSE "0"]

\* lines 322-326: "1" if phase else "0" for phase in phase_vector[n:][::-1]
compute_target_bitstring(c) ==
    LET phase_vector == phase(Clifford(c))
        n == c.num_qubits
        tail == SubSeq(phase_vector, n + 1, Len(phase_vector))
        reversed == [x \in 1..Len(tail) |-> tail[Len(tail) + 1 - x]]
    IN  [x \in 1..Len(reversed) |-> IF reversed[x] THEN "1" ELSE "0"]

\* the Clifford gates on n qubits
Gates(n) ==
    {<<g, <<q>> >> : g \in {"h", "s", "sdg", "sxdg", "x", "y", "z"}, q \in 0..(n - 1)}
        \cup {<<"cx", e>> : e \in {f \in (0..(n - 1)) \X (0..(n - 1)) : f[1] # f[2]}}

InitTarget ==
    /\ pc = "compute_target_bitstring"
    /\ \E n \in 1..MaxNumQubits :
          \E data \in SeqsUpTo(Gates(n), MaxGates) : qc = [num_qubits |-> n, data |-> data]
    /\ num = Unused /\ sig = Unused /\ sigs = Unused /\ res = Unused /\ elem = Unused
    /\ GrabUnused /\ RestUnused

target_bitstring ==
    /\ pc = "compute_target_bitstring"
    /\ res' = compute_target_bitstring(qc)
    /\ pc' = "compute_target_bitstring_done"
    /\ UNCHANGED <<num, sig, sigs, elem, qc, grabVars, restVars>>

SpecTarget == InitTarget /\ [][target_bitstring]_vars

\* C15: for a circuit on n qubits compute_target_bitstring returns n
\* characters, each "0" or "1"; the character at position x (from 1) is
\* "1" exactly when entry 2n + 1 - x of the 2n phases of the circuit's
\* Clifford is True, that is, the trailing n phases read backwards; a
\* single X on a 1-qubit register gives "1" and the empty 1-qubit circuit
\* gives "0".
C15_TargetBitstring ==
    pc = "compute_target_bitstring_done" =>
        /\ Len(res) = qc.num_qubits
        /\ \A x \in DOMAIN res :
              /\ res[x] \in {"0", "1"}
              /\ res[x] = "1" <=> Clifford(qc)[2 * qc.num_qubits + 1 - x].phase
        /\ qc = append(QuantumCircuit(1), "x", <<0>>) => res = <<"1">>
        /\ qc = QuantumCircuit(1) => res = <<"0">>

C15_Witness ==
    /\ pc = "compute_target_bitstring_done"
    /\ qc = append(QuantumCircuit(2), "x", <<0>>)
    /\ res = <<"0", "1">>

(***************************************************************************)
(* MockIQParallelExperimentHelper._parallel_exp_circ_splitter and          *)
(* _create_qubit_exp_map (mock_iq_helpers.py, lines 238-321).              *)
(*                                                                         *)
(* An experiment is known by its position in exp_list, exp_list[e] being   *)
(* its physical_qubits.  A circuit is a record [data, metadata]; an        *)
(* instruction is <<name, qargs>>, qargs being the indices of its qubits   *)
(* in the circuit (qubit_indices).  A subscript of a dict by a key it does *)
(* not hold raises KeyError.                                               *)
(***************************************************************************)
\* lines 312-319: some qubit is listed twice in the physical_qubits of exp_list
Duplicated(el) ==
    \E a, b \in DOMAIN el : \E i \in DOMAIN el[a], j \in DOMAIN el[b] :
        <<a, i>> # <<b, j>> /\ el[a][i] = el[b][j]

\* lines 302-321: the dict from qubit to experiment, when no qubit is listed twice
create_qubit_exp_map(el) ==
    [q \in UNION {Range(el[a]) : a \in DOMAIN el} |-> CHOOSE a \in DOMAIN el : q \in Range(el[a])]

\* lines 264-270: a copy of qc with its data and metadata cleared is
\* appended to the list of every experiment
with_empty_copies(lists) ==
    [e \in DOMAIN lists |-> Append(lists[e], [data |-> << >>, metadata |-> << >>])]

\* lines 273-278: the metadata of each experiment is put on the last
\* circuit of its list
RECURSIVE fix_metadata(_, _, _, _)
fix_metadata(lists, map, cm, x) ==
    IF x > Len(cm) THEN lists
    ELSE LET e == map[cm[x].qubits[1]]
         IN  fix_metadata([lists EXCEPT ![e][Len(lists[e])].metadata = cm[x]], map, cm, x + 1)

\* lines 281-292: each instruction is appended to the last circuit of the
\* experiment of its first qubit, if all its qubits are physical qubits of
\* that experiment; QiskitError if they are not
RECURSIVE place_instructions(_, _, _, _, _)
place_instructions(lists, map, el, data, x) ==
    IF x > Len(data) THEN [raised |-> "", lists |-> lists]
    ELSE LET qarg == data[x][2]
         IN  IF qarg[1] \notin DOMAIN map
             THEN [raised |-> "KeyError", lists |-> lists]
             ELSE LET e == map[qarg[1]]
                  IN  IF Range(qarg) \subseteq Range(el[e])
                      THEN place_instructions(
                               [lists EXCEPT ![e][Len(lists[e])].data = Append(@, data[x])],
                               map, el, data, x + 1)
                      ELSE [raised |-> "QiskitError", lists |-> lists]

\* lines 295-298: the last circuit of a list is dropped if it got no instruction
delete_empty(lists) ==
    [e \in DOMAIN lists |->
        IF lists[e][Len(lists[e])].data = << >>
        THEN SubSeq(lists[e], 1, Len(lists[e]) - 1)
        ELSE lists[e]]

\* lines 253-256: the maps and the empty list of every experiment
CreateQubitExpMap ==
    /\ pc = "splitter"
    /\ IF Duplicated(exp_list)
       THEN /\ raised' = "QiskitError"
            /\ pc' = "raise"
            /\ UNCHANGED <<qubit_exp_map, exp_circuits_list>>
       ELSE /\ qubit_exp_map' = create_qubit_exp_map(exp_list)
            /\ exp_circuits_list' = [e \in DOMAIN exp_list |-> << >>]
            /\ pc' = "for_qc"
            /\ UNCHANGED raised
    /\ UNCHANGED <<exp_list, circuits, rankVars, qc, grabVars, cacheVars, num_qubits>>

\* lines 258-298: one pass of "for qc in qc_list"
SplitCircuit ==
    /\ pc = "for_qc"
    /\ iter < Len(circuits)
    /\ LET c == circuits[iter + 1]
           fixed == fix_metadata(with_empty_copies(exp_circuits_list), qubit_exp_map,
                                 c.metadata.composite_metadata, 1)
           placed == place_instructions(fixed, qubit_exp_map, exp_list, c.data, 1)
       IN  IF placed.raised # ""
           THEN /\ raised' = placed.raised
                /\ pc' = "raise"
                /\ UNCHANGED <<exp_circuits_list, iter>>
           ELSE /\ exp_circuits_list' = delete_empty(placed.lists)
                /\ iter' = iter + 1
                /\ UNCHANGED <<pc, raised>>
    /\ UNCHANGED <<exp_list, circuits, qubit_exp_map, rankVars, qc, cacheVars, num_qubits>>
    /\ UNCHANGED <<qubits, coupling_map, two_qubit_gate_density, size, all_edges, aliased,
                   selected_edges, two_qubit_prob, put_1_qubit_clifford, pos, warned, draws,
                   qc_list>>

\* line 300: return exp_circuits_list
SplitReturn ==
    /\ pc = "for_qc"
    /\ iter = Len(circuits)
    /\ pc' = "return"
    /\ UNCHANGED <<rankVars, qc, grabVars, restVars>>

\* the experiments run in parallel, by their physical qubits
Layouts ==
    { << <<0>>, <<1, 2>> >>, << <<1, 2>>, <<0>> >>, << <<0, 1>>, <<2>> >>,
      << <<0>>, <<2>> >>, << <<1>> >>, << <<0, 1>>, <<1, 2>> >> }

\* the instructions of the circuits
SplitInsts == { <<"x", <<0>> >>, <<"x", <<1>> >>, <<"cx", <<1, 2>> >>, <<"cx", <<2, 1>> >> }

\* the circuits of a parallel experiment on the experiments el
SplitCircuits(el) ==
    {[data |-> d,
      metadata |-> [composite_metadata |-> [e \in DOMAIN el |-> [qubits |-> el[e]]]]] :
        d \in SeqsUpTo(SplitInsts, MaxInsts)}

InitSplit ==
    /\ pc = "splitter"
    /\ exp_list \in Layouts
    /\ circuits \in [1..2 -> SplitCircuits(exp_list)] \cup [1..1 -> SplitCircuits(exp_list)]
    /\ qubit_exp_map = Unused /\ exp_circuits_list = Unused /\ raised = ""
    /\ num = Unused /\ sig = Unused /\ sigs = Unused /\ res = Unused /\ elem = Unused
    /\ qc = Unused /\ num_qubits = 0
    /\ GrabUnused /\ CacheUnused

NextSplit == CreateQubitExpMap \/ SplitCircuit \/ SplitReturn

SpecSplit == InitSplit /\ [][NextSplit]_vars

\* all qubits of the instruction g are physical qubits of experiment e
Fits(g, e) == Range(g[2]) \subseteq Range(exp_list[e])

\* the instructions of the circuit c that fit experiment e, in their order
Part(c, e) == SelectSeq(c.data, LAMBDA g : Fits(g, e))

\* the parts for experiment e of the circuits that have one, in the order
\* of the circuits
Parts(e) ==
    SelectSeq([x \in DOMAIN circuits |-> Part(circuits[x], e)], LAMBDA d : d # << >>)

\* every instruction of every circuit has all its qubits in one experiment
AllSplittable ==
    \A x \in DOMAIN circuits : \A y \in DOMAIN circuits[x].data :
        \E e \in DOMAIN exp_list : Fits(circuits[x].data[y], e)

\* C20 (as claimed): the splitter returns one list per experiment; the
\* circuits of the list of an experiment hold, circuit by circuit and in
\* their original order, the instructions whose qubits are all physical
\* qubits of that experiment, every instruction being in exactly one
\* list; and when some instruction has qubits that do not all belong to
\* one experiment, the call ends with a QiskitError.
C20_Splitter ==
    /\ pc = "return" =>
          /\ Len(exp_circuits_list) = Len(exp_list)
          /\ \A e \in DOMAIN exp_list :
                [x \in DOMAIN exp_circuits_list[e] |-> exp_circuits_list[e][x].data] = Parts(e)
          /\ \A x \in DOMAIN circuits : \A y \in DOMAIN circuits[x].data :
                Cardinality({e \in DOMAIN exp_list : Fits(circuits[x].data[y], e)}) = 1
    /\ (pc \in {"return", "raise"} /\ ~Duplicated(exp_list) /\ ~AllSplittable) =>
          (pc = "raise" /\ raised = "QiskitError")

====
